---- MODULE Spec2Model ----
(***************************************************************************)
(* Megalodon, Misskey backend: the entity converters (MisskeyAPI.Converter),*)
(* the API client (MisskeyAPI.Client) and the facade (class Misskey).       *)
(*                                                                         *)
(* The specifications of the module:                                        *)
(*   SpecConv  the converters applied to bounded native entities, with the  *)
(*             wall clock that Converter.poll reads;                        *)
(*   Spec      facade instances issuing requests through their clients,     *)
(*             the transport answering them, and cancel();                  *)
(*   SpecList  every method that sends requests, one awaited call at a      *)
(*             time;                                                        *)
(*   SpecStream, SpecStreamLive  the streaming handler.                     *)
(***************************************************************************)
EXTENDS Integers, Sequences, FiniteSets, TLC

VARIABLES
    clock,      \* the wall clock moment() reads
    subject,    \* the converter call under study: [fn, input]
    conv,       \* its first evaluation: [at, out], or NoConv
    again,      \* a later evaluation on the same input: [at, out], or NoConv
    cancelled,  \* per cancel token source: has its cancel() been called
    cancelCalled, \* the facade instances whose cancel() the caller has invoked
    calls,      \* per call slot: a facade call awaiting a response, or Idle
    backend,    \* the server's state the mutating endpoints change
    ret,        \* the settlement this step delivered to a caller, or NoRet
    scope,      \* the set of operations the caller uses in this run
    stream      \* one streaming subscription: its state and what it emitted

convVars   == <<clock, subject, conv, again>>
facadeVars == <<cancelled, cancelCalled, calls, backend, ret, scope>>
vars       == <<clock, subject, conv, again, cancelled, cancelCalled, calls,
               backend, ret, scope, stream>>

----------------------------------------------------------------------------
(* Bounds of the model.                                                    *)

MaxTime    == 2   \* clock values and expiry timestamps range over 0..MaxTime
MaxVotes   == 2   \* votes of one poll choice range over 0..MaxVotes
MaxChoices == 2   \* a native poll carries at most MaxChoices choices
MaxCalls   == 2   \* facade calls that may be in flight at once
MaxMembers == 2   \* a list on the server has at most MaxMembers members
MaxFrames  == 3   \* inbound frames one subscription receives in a run
MaxRetries == 2   \* the retry budget of one reconnection
MaxSilence == 1   \* quiet intervals after which the link counts as lost
MaxLosses  == 2   \* link losses one subscription meets in a run

----------------------------------------------------------------------------
(* JavaScript values.                                                      *)

Null      == "<null>"
Undefined == "<undefined>"
None      == <<>>            \* null/undefined in a place that holds an object
Some(x)   == <<x>>
Falsy(v)  == v \in {Null, Undefined, ""}

\* Nothing converted yet; no converter call under study.
NoConv    == [ at |-> 0 - 1 ]
\* A subscription nobody has opened.
StreamOff ==
    [ state |-> "Idle", events |-> <<>>, received |-> <<>>, retries |-> 0,
      silence |-> 0, losses |-> 0, closedBy |-> "" ]

NoSubject == [ fn |-> "none" ]

RECURSIVE SeqSum(_)
SeqSum(s) == IF s = <<>> THEN 0 ELSE Head(s) + SeqSum(Tail(s))

----------------------------------------------------------------------------
(* Backend-native entities (bounded).                                      *)

Ids == {"id1", "id2"}

Emojis == { [name |-> "blob", url |-> "https://e.example/blob.png"] }
EmojiLists == {<<>>} \cup { <<e>> : e \in Emojis }

Users ==
    [ id : Ids, username : {"alice"}, host : {Null, "", "remote.example"},
      name : {"Alice"}, avatarUrl : {"https://e.example/a.png"},
      avatarColor : {"#fff"}, emojis : EmojiLists ]

UserDetails ==
    [ id : Ids, username : {"alice"}, host : {Null, "", "remote.example"},
      name : {"Alice"}, avatarUrl : {"https://e.example/a.png"},
      avatarColor : {"#fff"}, emojis : {<<>>},
      isLocked : BOOLEAN, createdAt : {"2020-01-01"}, followersCount : {3},
      followingCount : {4}, notesCount : {5}, description : {"bio"},
      bannerUrl : {"https://e.example/b.png"}, bannerColor : {"#000"},
      isBot : BOOLEAN ]

Choices == [ text : {"yes"}, votes : 0..MaxVotes, isVoted : BOOLEAN ]

ChoiceLists ==
    UNION { [1..n -> Choices] : n \in 0..MaxChoices }

Expiries == {None} \cup { Some(t) : t \in 0..MaxTime }

\* A native poll. The payload may carry an identity of its own; poll() reads
\* expiresAt, multiple and choices only.
Polls ==
    [ id : {"poll1"}, expiresAt : Expiries, multiple : BOOLEAN,
      choices : ChoiceLists ]

\* The polls carried by notes: at most one choice.
NotePolls ==
    { p \in Polls : /\ ~p.multiple
                    /\ Len(p.choices) <= 1
                    /\ \A i \in 1..Len(p.choices) :
                          p.choices[i].votes = MaxVotes /\ ~p.choices[i].isVoted }

FileSafe == [ id |-> "f1", url |-> "https://e.example/f1", thumbnailUrl |-> "https://e.example/t1",
              isSensitive |-> FALSE ]
FileSens == [ id |-> "f2", url |-> "https://e.example/f2", thumbnailUrl |-> "https://e.example/t2",
              isSensitive |-> TRUE ]

FileLists ==
    { None, Some(<<>>), Some(<<FileSafe>>), Some(<<FileSens>>), Some(<<FileSafe, FileSens>>) }

NativeVisibilities == {"public", "home", "followers", "specified"}
UnifiedVisibilities == {"public", "unlisted", "private", "direct"}
\* A value of neither table, as a newer server may send or a caller may pass.
OtherVisibilities == {"hidden"}

NoteUser ==
    [ id |-> "id2", username |-> "bob", host |-> Null, name |-> "Bob",
      avatarUrl |-> "https://e.example/bob.png", avatarColor |-> "#0f0", emojis |-> <<>> ]

\* The notes a renote nests: native payloads nest one level.
InnerNotes ==
    [ id : {"id2"}, user : {NoteUser}, replyId : {Null}, renote : {None},
      text : {"inner"}, createdAt : {"2020-01-02"}, emojis : {<<>>},
      repliesCount : {0}, renoteCount : {1}, cw : {Null},
      files : {Some(<<FileSafe>>), Some(<<FileSens>>)}, visibility : {"home"},
      poll : {None, Some([id |-> "poll1", expiresAt |-> Some(1), multiple |-> FALSE,
                          choices |-> <<>>])} ]

Notes ==
    [ id : Ids, user : {NoteUser}, replyId : {Null},
      renote : {None} \cup { Some(n) : n \in InnerNotes },
      text : {"hello"}, createdAt : {"2020-01-03"}, emojis : {<<>>},
      repliesCount : {0}, renoteCount : {0}, cw : {Null},
      files : FileLists, visibility : NativeVisibilities \cup OtherVisibilities,
      poll : {None} \cup { Some(p) : p \in NotePolls } ]

----------------------------------------------------------------------------
(* MisskeyAPI.Converter                                                    *)

emoji(e) ==
    [ shortcode |-> e.name, static_url |-> e.url, url |-> e.url,
      visible_in_picker |-> TRUE ]

\* A host that is the empty string counts as a host.
acctOf_nullOnly(u) ==
    IF u.host = Null THEN u.username ELSE u.username \o "@" \o u.host

\* let acct = u.username; if (u.host) acct = `${u.username}@${u.host}`
acctOf(u) == IF Falsy(u.host) THEN u.username ELSE u.username \o "@" \o u.host

user(u) ==
    [ id |-> u.id, username |-> u.username, acct |-> acctOf(u),
      display_name |-> u.name, locked |-> FALSE, created_at |-> "",
      followers_count |-> 0, following_count |-> 0, statuses_count |-> 0,
      note |-> "", url |-> "", avatar |-> u.avatarUrl,
      avatar_static |-> u.avatarColor, header |-> "", header_static |-> "",
      emojis |-> [i \in 1..Len(u.emojis) |-> emoji(u.emojis[i])],
      moved |-> Null, fields |-> Null, bot |-> Null ]

userDetail(u) ==
    [ id |-> u.id, username |-> u.username, acct |-> acctOf(u),
      display_name |-> u.name, locked |-> u.isLocked, created_at |-> u.createdAt,
      followers_count |-> u.followersCount, following_count |-> u.followingCount,
      statuses_count |-> u.notesCount, note |-> u.description, url |-> acctOf(u),
      avatar |-> u.avatarUrl, avatar_static |-> u.avatarColor,
      header |-> u.bannerUrl, header_static |-> u.bannerColor,
      emojis |-> [i \in 1..Len(u.emojis) |-> emoji(u.emojis[i])],
      moved |-> Null, fields |-> Null, bot |-> u.isBot ]

visibility_collapsed(v) ==
    CASE v = "public" -> v
      [] v = "home" -> "public"
      [] v = "followers" -> "private"
      [] v = "specified" -> "direct"
      [] OTHER -> Undefined

\* A switch without a default: a value of no case falls off the end of the
\* function, which returns undefined.
visibility(v) ==
    CASE v = "public" -> v
      [] v = "home" -> "unlisted"
      [] v = "followers" -> "private"
      [] v = "specified" -> "direct"
      [] OTHER -> Undefined

encodeVisibility(v) ==
    CASE v = "public" -> v
      [] v = "unlisted" -> "home"
      [] v = "private" -> "followers"
      [] v = "direct" -> "specified"
      [] OTHER -> Undefined

file(f) ==
    [ id |-> f.id, type |-> "image", url |-> f.url, remote_url |-> f.url,
      preview_url |-> f.thumbnailUrl, text_url |-> f.url, meta |-> Null,
      description |-> Null ]

relation_mirrored(r) ==
    [ id |-> r.id, following |-> r.isFollowed, followed_by |-> r.isFollowing,
      blocking |-> r.isBlocking, muting |-> r.isMuted,
      muting_notifications |-> FALSE,
      requested |-> r.hasPendingFollowRequestFromYou,
      domain_blocking |-> FALSE, showing_reblogs |-> TRUE, endorsed |-> FALSE ]

relation(r) ==
    [ id |-> r.id, following |-> r.isFollowing, followed_by |-> r.isFollowed,
      blocking |-> r.isBlocking, muting |-> r.isMuted,
      muting_notifications |-> FALSE,
      requested |-> r.hasPendingFollowRequestFromYou,
      domain_blocking |-> FALSE, showing_reblogs |-> TRUE, endorsed |-> FALSE ]

\* user(f.follower)
follower(f) == user(f.follower)

\* user(f.followee)
following(f) == user(f.followee)

choice(c) == [ title |-> c.text, votes_count |-> c.votes ]

isAfter_reversed(now, expiresAt) == expiresAt # None /\ now < expiresAt[1]

\* now.isAfter(expire): moment(null) is an invalid date, after which nothing is.
isAfter(now, expiresAt) == expiresAt # None /\ now > expiresAt[1]

poll_countsChoices(p) ==
    LET now == clock IN
    [ id |-> "",
      expires_at |-> p.expiresAt,
      expired |-> isAfter(now, p.expiresAt),
      multiple |-> p.multiple,
      votes_count |-> Len(p.choices),
      options |-> [i \in 1..Len(p.choices) |-> choice(p.choices[i])],
      voted |-> \E i \in 1..Len(p.choices) : p.choices[i].isVoted ]

poll_relative(p) ==
    LET now == clock IN
    [ id |-> "",
      expires_at |-> IF p.expiresAt = None THEN None ELSE Some(p.expiresAt[1] - now),
      expired |-> isAfter(now, p.expiresAt),
      multiple |-> p.multiple,
      votes_count |-> SeqSum([i \in 1..Len(p.choices) |-> p.choices[i].votes]),
      options |-> [i \in 1..Len(p.choices) |-> choice(p.choices[i])],
      voted |-> \E i \in 1..Len(p.choices) : p.choices[i].isVoted ]

poll(p) ==
    LET now == clock IN
    [ id |-> "",
      expires_at |-> p.expiresAt,
      expired |-> isAfter(now, p.expiresAt),
      multiple |-> p.multiple,
      votes_count |-> SeqSum([i \in 1..Len(p.choices) |-> p.choices[i].votes]),
      options |-> [i \in 1..Len(p.choices) |-> choice(p.choices[i])],
      voted |-> \E i \in 1..Len(p.choices) : p.choices[i].isVoted ]

RECURSIVE note(_)

\* sensitive computed from every file instead of any file.
note_sensitiveEvery(n) ==
    [ id |-> n.id, uri |-> "", url |-> "",
      account |-> user(n.user),
      in_reply_to_id |-> n.replyId, in_reply_to_account_id |-> Null,
      reblog |-> IF n.renote # None THEN Some(note(n.renote[1])) ELSE None,
      content |-> n.text, created_at |-> n.createdAt,
      emojis |-> [i \in 1..Len(n.emojis) |-> emoji(n.emojis[i])],
      replies_count |-> n.repliesCount, reblogs_count |-> n.renoteCount,
      favourites_count |-> 0, reblogged |-> FALSE, favourited |-> FALSE,
      muted |-> FALSE,
      sensitive |-> IF n.files # None
                    THEN \A i \in 1..Len(n.files[1]) : n.files[1][i].isSensitive
                    ELSE FALSE,
      spoiler_text |-> IF Falsy(n.cw) THEN "" ELSE n.cw,
      visibility |-> visibility(n.visibility),
      media_attachments |-> IF n.files # None
                            THEN [i \in 1..Len(n.files[1]) |-> file(n.files[1][i])]
                            ELSE <<>>,
      mentions |-> <<>>, tags |-> <<>>, card |-> Null,
      poll |-> IF n.poll # None THEN Some(poll(n.poll[1])) ELSE None,
      application |-> Null, language |-> Null, pinned |-> Null ]

note(n) ==
    [ id |-> n.id, uri |-> "", url |-> "",
      account |-> user(n.user),
      in_reply_to_id |-> n.replyId, in_reply_to_account_id |-> Null,
      reblog |-> IF n.renote # None THEN Some(note(n.renote[1])) ELSE None,
      content |-> n.text, created_at |-> n.createdAt,
      emojis |-> [i \in 1..Len(n.emojis) |-> emoji(n.emojis[i])],
      replies_count |-> n.repliesCount, reblogs_count |-> n.renoteCount,
      favourites_count |-> 0, reblogged |-> FALSE, favourited |-> FALSE,
      muted |-> FALSE,
      sensitive |-> IF n.files # None
                    THEN \E i \in 1..Len(n.files[1]) : n.files[1][i].isSensitive
                    ELSE FALSE,
      spoiler_text |-> IF Falsy(n.cw) THEN "" ELSE n.cw,
      visibility |-> visibility(n.visibility),
      media_attachments |-> IF n.files # None
                            THEN [i \in 1..Len(n.files[1]) |-> file(n.files[1][i])]
                            ELSE <<>>,
      mentions |-> <<>>, tags |-> <<>>, card |-> Null,
      poll |-> IF n.poll # None THEN Some(poll(n.poll[1])) ELSE None,
      application |-> Null, language |-> Null, pinned |-> Null ]

\* if (n.reply) accounts.push(user(n.reply.user))
noteToConversation(n) ==
    [ id |-> n.id,
      accounts |-> IF "reply" \in DOMAIN n /\ n.reply # None
                   THEN << user(n.user), user(n.reply[1].user) >>
                   ELSE << user(n.user) >>,
      last_status |-> note(n),
      unread |-> FALSE ]

----------------------------------------------------------------------------
(* Facade instances and their clients.                                     *)

Facades == {"A", "B"}

\* new Misskey(baseUrl, accessToken): the arguments of the two instances.
baseUrl(f)     == IF f = "A" THEN "https://a.example" ELSE "https://b.example"
accessToken(f) == IF f = "A" THEN "tokenA" ELSE "tokenB"

DEFAULT_URL == "https://misskey.io"

\* One token source for every client, whichever instance owns it.
cancelTokenSource_shared(f) == "A"

\* this.cancelTokenSource = axios.CancelToken.source(): one per client.
cancelTokenSource(f) == f

NoToken == "<no cancel token>"

----------------------------------------------------------------------------
(* The operations of class Misskey.                                        *)

\* The methods whose body is reject(new NoImplementedError(...)).
NoImplementedOps ==
    { "verifyAppCredentials", "refreshToken", "revokeToken", "registerAccount",
      "getAccountFavourites", "subscribeAccount", "unsubscribeAccount",
      "getAccountLists", "getIdentityProof", "pinAccount", "unpinAccount",
      "getBookmarks", "getDomainBlocks", "blockDomain", "unblockDomain",
      "getFilters", "getFilter", "createFilter", "updateFilter", "deleteFilter",
      "getEndorsements", "getFeaturedTags", "createFeaturedTag",
      "deleteFeaturedTag", "getSuggestedTags", "getPreferences",
      "getStatusFavouritedBy", "bookmarkStatus", "unbookmarkStatus",
      "muteStatus", "unmuteStatus", "getPoll", "getScheduledStatuses",
      "getScheduledStatus", "scheduleStatus", "cancelScheduledStatus",
      "deleteConversation", "readConversation", "getMarker", "saveMarker" }

\* await this.client.post(first); return this.client.post(second).then(...)
RelationOps ==
    { "followAccount", "unfollowAccount", "blockAccount", "unblockAccount",
      "muteAccount", "unmuteAccount", "acceptFollowRequest", "rejectFollowRequest" }
ShowOps ==
    { "favouriteStatus", "unfavouriteStatus", "unreblogStatus", "pinStatus",
      "unpinStatus" }
TwoStepOps == RelationOps \cup ShowOps

\* One this.client.post(...).then(convert).
SingleOps == { "getAccount", "getStatus" }

\* One this.client.post(...) naming the first element of a list argument.
FirstOnlyOps == { "getRelationship", "addAccountsToList", "deleteAccountsFromList" }

\* One MisskeyAPI.Client.post(...) (the static, unauthorized post).
StaticOps == { "createApp", "generateAuthUrlAndToken", "fetchAccessToken" }

\* createApp(...).then(appData => generateAuthUrlAndToken(appData.client_secret))
RegisterOps == { "registerApp" }

\* One this.client.post(path, params).then(map convert), params built from the
\* caller's pagination arguments.
CursorOps == { "getFavourites", "getMutes", "getBlocks" }
MediaTimelineOps == { "getPublicTimeline", "getLocalTimeline", "getTagTimeline" }
TimelineOps ==
    MediaTimelineOps \cup
    { "getHomeTimeline", "getListTimeline", "getConversationTimeline" }
AccountListOps == { "getAccountFollowers", "getAccountFollowing", "searchAccount" }
\* Methods whose signature has a limit and no cursor.
LimitOnlyOps == { "getSuggestions", "getFollowRequests" }
PagedOps == CursorOps \cup TimelineOps \cup AccountListOps \cup LimitOnlyOps

\* One post for the list, then one getAccount per member, all at once.
FanOutOps == { "getAccountsInList" }

OpKind(op) ==
    CASE op \in NoImplementedOps -> "unsupported"
      [] op \in TwoStepOps -> "twostep"
      [] op = "votePoll" -> "votePoll"
      [] op \in SingleOps \cup FirstOnlyOps -> "single"
      [] op \in StaticOps -> "static"
      [] op \in PagedOps -> "paged"
      [] op \in FanOutOps -> "fanout"
      [] op \in RegisterOps -> "register"

\* The path of an operation's first request, as written in the source.
FirstPath(op) ==
    CASE op = "followAccount" -> "api/following/create"
      [] op = "unfollowAccount" -> "api/following/delete"
      [] op = "blockAccount" -> "api/blocking/create"
      [] op = "unblockAccount" -> "api/blocking/delete"
      [] op = "muteAccount" -> "api/mute/create"
      [] op = "unmuteAccount" -> "api/mute/delete"
      [] op = "acceptFollowRequest" -> "/api/following/requests/accept"
      [] op = "rejectFollowRequest" -> "/api/following/requests/reject"
      [] op = "favouriteStatus" -> "/api/notes/favorites/create"
      [] op = "unfavouriteStatus" -> "/api/notes/favorites/delete"
      [] op = "unreblogStatus" -> "/api/notes/unrenote"
      [] op = "pinStatus" -> "/api/i/pin"
      [] op = "unpinStatus" -> "/api/i/unpin"
      [] op = "votePoll" -> "/api/notes/polls/vote"
      [] op = "getAccount" -> "/api/users/show"
      [] op = "getStatus" -> "/api/notes/show"
      [] op \in {"createApp", "registerApp"} -> "/api/app/create"
      [] op = "generateAuthUrlAndToken" -> "/api/auth/session/generate"
      [] op = "fetchAccessToken" -> "/api/auth/session/userkey"
      [] op = "getAccountFollowers" -> "/api/users/followers"
      [] op = "getAccountFollowing" -> "/api/users/following"
      [] op = "searchAccount" -> "/api/users/search"
      [] op = "getFavourites" -> "/api/i/favorites"
      [] op = "getMutes" -> "/api/mute/list"
      [] op = "getBlocks" -> "/api/blocking/list"
      [] op = "getSuggestions" -> "/api/users/recommendation"
      [] op = "getFollowRequests" -> "/api/folllowing/requests/list"
      [] op = "getPublicTimeline" -> "/api/notes/global-timeline"
      [] op = "getLocalTimeline" -> "/api/notes/local-timeline"
      [] op = "getTagTimeline" -> "/api/notes/search-by-tag"
      [] op = "getHomeTimeline" -> "/api/notes/timeline"
      [] op = "getListTimeline" -> "/api/notes/user-list-timeline"
      [] op = "getConversationTimeline" -> "/api/notes/mentions"
      [] op = "getAccountsInList" -> "/api/users/lists/show"
      [] op = "getRelationship" -> "/api/users/relation"
      [] op = "addAccountsToList" -> "/api/users/lists/push"
      [] op = "deleteAccountsFromList" -> "/api/users/lists/pull"

SecondPath(op) ==
    IF op \in RelationOps THEN "/api/users/relation"
    ELSE IF op \in FanOutOps THEN "/api/users/show"
    ELSE "/api/notes/show"

\* The arguments a caller passes.
StatusIdArgs == {Undefined, Null, "", "id1"}
ChoicesArgs  == { <<1>>, <<0, 1>> }

\* ids / account_ids: Array<string>
IdListArgs == { <<>>, << "id1" >>, << "id2", "id1" >> }

\* The pagination arguments a caller may pass: omitted (undefined), null, or
\* a value; limit is a number, the cursors are ids.
LimitArgs == { None, Some(0), Some(20) }
MaxIdArgs == { Undefined, Null, "", "m1" }
SinceIdArgs == { Undefined, Null, "s1" }
MinIdArgs == { Undefined, Null, "n1" }

\* The arguments of the signature of a paged method; a parameter the signature
\* does not have is undefined.
PagedArgs(op) ==
    [ id : {"id1"},
      only_media : IF op \in MediaTimelineOps THEN BOOLEAN ELSE {FALSE},
      limit : LimitArgs,
      max_id : IF op \in LimitOnlyOps THEN {Undefined} ELSE MaxIdArgs,
      since_id : IF op \in CursorOps \cup LimitOnlyOps THEN {Undefined}
                 ELSE SinceIdArgs,
      min_id : IF op \in CursorOps \cup TimelineOps THEN MinIdArgs
               ELSE {Undefined} ]

Args(op) ==
    CASE op \in PagedOps -> { subject.input }
      [] op = "votePoll" ->
           [ id : {"poll1"}, choices : ChoicesArgs, status_id : StatusIdArgs ]
      [] op = "getRelationship" -> [ ids : IdListArgs ]
      [] op \in {"addAccountsToList", "deleteAccountsFromList"} ->
           [ id : {"id1"}, account_ids : IdListArgs ]
      [] op \in {"createApp", "registerApp"} -> { [ client_name |-> "app" ] }
      [] op = "generateAuthUrlAndToken" -> { [ clientSecret |-> "secret" ] }
      [] op = "fetchAccessToken" ->
           { [ client_secret |-> "secret", session_token |-> "session" ] }
      [] OTHER -> { [ id |-> "id1" ] }

\* The last element instead of the first.
First_last(seq) == IF Len(seq) >= 1 THEN seq[Len(seq)] ELSE Undefined

\* choices[0], ids[0], account_ids[0]
First(seq) == IF Len(seq) >= 1 THEN seq[1] ELSE Undefined

\* if (limit): 0, null and undefined are falsy.
HasLimit(limit) == limit # None /\ limit[1] # 0

\* if (limit) params = Object.assign(params, { limit: limit })
withLimit_default(params, limit) ==
    params @@ ("limit" :> IF HasLimit(limit) THEN limit[1] ELSE 20)

withLimit(params, limit) ==
    IF HasLimit(limit) THEN params @@ ("limit" :> limit[1]) ELSE params

\* if (max_id) params = Object.assign(params, { untilId: max_id })
withUntilId(params, max_id) ==
    IF Falsy(max_id) THEN params ELSE params @@ ("untilId" :> max_id)

\* if (since_id) params = Object.assign(params, { sinceId: since_id })
withSinceId(params, since_id) ==
    IF Falsy(since_id) THEN params ELSE params @@ ("sinceId" :> since_id)

\* if (only_media) params = Object.assign(params, { withFiles: only_media })
withFiles(params, only_media) ==
    IF only_media THEN params @@ ("withFiles" :> only_media) ELSE params

\* let params = {...}: the body a paged method starts from.
BaseParams(op, arg) ==
    CASE op \in {"getAccountFollowers", "getAccountFollowing"} -> [ userId |-> arg.id ]
      [] op = "searchAccount" -> [ query |-> arg.id ]
      [] op = "getTagTimeline" -> [ tag |-> arg.id ]
      [] op = "getHomeTimeline" -> [ withFiles |-> FALSE ]
      [] op = "getListTimeline" -> [ listId |-> arg.id, withFiles |-> FALSE ]
      [] op = "getConversationTimeline" -> [ visibility |-> "specified" ]
      [] OTHER -> <<>>

\* The body a paged method builds from its arguments.
PagedParams(op, arg) ==
    CASE op = "getFollowRequests" -> <<>>
      [] op \in AccountListOps \cup {"getSuggestions"} ->
           withLimit(BaseParams(op, arg), arg.limit)
      [] op \in CursorOps ->
           withSinceId(withUntilId(withLimit(BaseParams(op, arg), arg.limit),
                                   arg.max_id), arg.min_id)
      [] op \in MediaTimelineOps ->
           withSinceId(withUntilId(withLimit(withFiles(BaseParams(op, arg),
                                                       arg.only_media),
                                             arg.limit), arg.max_id), arg.since_id)
      [] OTHER ->
           withSinceId(withUntilId(withLimit(BaseParams(op, arg), arg.limit),
                                   arg.max_id), arg.since_id)

\* The body of a request before the client adds the credential.
Params(op, arg, step) ==
    CASE op \in PagedOps -> PagedParams(op, arg)
      [] op \in FanOutOps -> [ listId |-> arg.id ]
      [] op = "getRelationship" -> [ userId |-> First(arg.ids) ]
      [] op \in {"addAccountsToList", "deleteAccountsFromList"} ->
           [ listId |-> arg.id, userId |-> First(arg.account_ids) ]
      [] op \in RelationOps \cup {"getAccount"} -> [ userId |-> arg.id ]
      [] op \in ShowOps \cup {"getStatus"} -> [ noteId |-> arg.id ]
      [] op = "votePoll" /\ step = 1 ->
           [ noteId |-> arg.status_id, choice |-> First(arg.choices) ]
      [] op = "votePoll" /\ step = 2 -> [ noteId |-> arg.status_id ]
      [] op \in {"createApp", "registerApp"} ->
           [ name |-> arg.client_name, description |-> "" ]
      [] op = "generateAuthUrlAndToken" -> [ appSecret |-> arg.clientSecret ]
      [] op = "fetchAccessToken" ->
           [ appSecret |-> arg.client_secret, token |-> arg.session_token ]

\* Client.post (instance): baseUrl + path, the credential merged into the
\* body as i, the client's cancel token in the options.
post_noCancelToken(f, path, params) ==
    [ url |-> baseUrl(f) \o path,
      body |-> [ params |-> params, i |-> Some(accessToken(f)) ],
      token |-> NoToken ]

post_noCredential(f, path, params) ==
    [ url |-> baseUrl(f) \o path,
      body |-> [ params |-> params, i |-> None ],
      token |-> cancelTokenSource(f) ]

post(f, path, params) ==
    [ url |-> baseUrl(f) \o path,
      body |-> [ params |-> params, i |-> Some(accessToken(f)) ],
      token |-> cancelTokenSource(f) ]

\* Client.post (static): no credential, no cancel token.
staticPost(path, params, base) ==
    [ url |-> base \o path,
      body |-> [ params |-> params, i |-> None ],
      token |-> NoToken ]

\* The request an operation issues at a step.
Request(f, op, arg, step) ==
    CASE OpKind(op) = "static" ->
           staticPost(FirstPath(op), Params(op, arg, step),
                      IF op = "createApp" THEN baseUrl(f) ELSE DEFAULT_URL)
      [] OpKind(op) = "register" ->
           staticPost(FirstPath(op), Params(op, arg, step), baseUrl(f))
      [] OpKind(op) \in {"twostep", "votePoll"} /\ step = 2 ->
           post(f, SecondPath(op), Params(op, arg, step))
      [] OTHER -> post(f, FirstPath(op), Params(op, arg, step))

(* The compensating request of a rollback, which the source does not have. *)
UndoRequest(f, op, arg) == post(f, "/undo" \o FirstPath(op), Params(op, arg, 1))

----------------------------------------------------------------------------
(* The server.                                                             *)

BackendOff ==
    [ following |-> FALSE, requested |-> FALSE, followedBy |-> FALSE,
      blocking |-> FALSE, muting |-> FALSE, favourited |-> FALSE,
      renoted |-> TRUE, pinned |-> FALSE, voted |-> FALSE ]

\* What an endpoint does to the server when it serves a request: the set of
\* states it may leave. Following an account already followed is a no-op; a
\* locked account turns a follow into a pending request.
Served(op, step, b) ==
    IF step # 1 THEN {b} ELSE
    CASE op = "followAccount" ->
           IF b.following THEN {b}
           ELSE { [b EXCEPT !.following = TRUE, !.requested = FALSE],
                  [b EXCEPT !.requested = TRUE] }
      [] op = "unfollowAccount" ->
           { [b EXCEPT !.following = FALSE, !.requested = FALSE] }
      [] op = "blockAccount" -> { [b EXCEPT !.blocking = TRUE] }
      [] op = "unblockAccount" -> { [b EXCEPT !.blocking = FALSE] }
      [] op = "muteAccount" -> { [b EXCEPT !.muting = TRUE] }
      [] op = "unmuteAccount" -> { [b EXCEPT !.muting = FALSE] }
      [] op = "acceptFollowRequest" -> { [b EXCEPT !.followedBy = TRUE] }
      [] op = "rejectFollowRequest" -> { [b EXCEPT !.followedBy = FALSE] }
      [] op = "favouriteStatus" -> { [b EXCEPT !.favourited = TRUE] }
      [] op = "unfavouriteStatus" -> { [b EXCEPT !.favourited = FALSE] }
      [] op = "unreblogStatus" -> { [b EXCEPT !.renoted = FALSE] }
      [] op = "pinStatus" -> { [b EXCEPT !.pinned = TRUE] }
      [] op = "unpinStatus" -> { [b EXCEPT !.pinned = FALSE] }
      [] op = "votePoll" -> { [b EXCEPT !.voted = TRUE] }
      [] OTHER -> {b}

\* The state an operation's first request establishes, when it is served.
Established(op, b) ==
    CASE op = "followAccount" -> b.following \/ b.requested
      [] op = "unfollowAccount" -> ~b.following /\ ~b.requested
      [] op = "blockAccount" -> b.blocking
      [] op = "unblockAccount" -> ~b.blocking
      [] op = "muteAccount" -> b.muting
      [] op = "unmuteAccount" -> ~b.muting
      [] op = "acceptFollowRequest" -> b.followedBy
      [] op = "rejectFollowRequest" -> ~b.followedBy
      [] op = "favouriteStatus" -> b.favourited
      [] op = "unfavouriteStatus" -> ~b.favourited
      [] op = "unreblogStatus" -> ~b.renoted
      [] op = "pinStatus" -> b.pinned
      [] op = "unpinStatus" -> ~b.pinned
      [] op = "votePoll" -> b.voted
      [] OTHER -> TRUE

RelationOf(b, id) ==
    [ id |-> id, isFollowing |-> b.following, isFollowed |-> b.followedBy,
      isBlocking |-> b.blocking, isMuted |-> b.muting,
      hasPendingFollowRequestFromYou |-> b.requested ]

ShownNote(withPoll) ==
    [ id |-> "id1", user |-> NoteUser, replyId |-> Null, renote |-> None,
      text |-> "hello", createdAt |-> "2020-01-03", emojis |-> <<>>,
      repliesCount |-> 0, renoteCount |-> 0, cw |-> Null, files |-> None,
      visibility |-> "public",
      poll |-> IF withPoll
               THEN Some([ id |-> "poll1", expiresAt |-> None, multiple |-> FALSE,
                           choices |-> << [text |-> "yes", votes |-> 1, isVoted |-> TRUE] >> ])
               ELSE None ]

ShownUser ==
    [ id |-> "id1", username |-> "alice", host |-> Null, name |-> "Alice",
      avatarUrl |-> "https://e.example/a.png", avatarColor |-> "#fff",
      emojis |-> <<>>, isLocked |-> FALSE, createdAt |-> "2020-01-01",
      followersCount |-> 3, followingCount |-> 4, notesCount |-> 5,
      description |-> "bio", bannerUrl |-> "https://e.example/b.png",
      bannerColor |-> "#000", isBot |-> FALSE ]

\* /api/users/show answers with the user asked for.
MemberPayload(userId) == [ShownUser EXCEPT !.id = userId]

\* The member ids of a list on the server.
MemberLists ==
    UNION { [1..n -> {"id1", "id2"}] : n \in 0..MaxMembers }

\* The payloads the server may answer a served request with.
Payloads(op, step, b) ==
    CASE OpKind(op) = "twostep" /\ step = 1 -> { [ empty |-> TRUE ] }
      [] op \in RelationOps /\ step = 2 -> { RelationOf(b, "id1") }
      [] op \in ShowOps /\ step = 2 -> { ShownNote(FALSE) }
      [] op = "votePoll" /\ step = 1 -> { [ empty |-> TRUE ] }
      [] op = "votePoll" /\ step = 2 -> { ShownNote(TRUE), ShownNote(FALSE) }
      [] op = "getAccount" -> { ShownUser }
      [] op = "getRelationship" -> { RelationOf(b, "id1"), RelationOf(b, "id2") }
      [] op \in {"addAccountsToList", "deleteAccountsFromList"} -> { [ empty |-> TRUE ] }
      [] op = "getStatus" -> { ShownNote(TRUE) }
      [] op = "createApp" \/ (op = "registerApp" /\ step = 1) ->
           { [ id |-> "app1", name |-> "app", callbackUrl |-> "https://a.example",
               secret |-> "secret" ] }
      [] op = "generateAuthUrlAndToken" \/ (op = "registerApp" /\ step = 2) ->
           { [ token |-> "session", url |-> "https://misskey.io/auth/session" ] }
      [] op = "fetchAccessToken" -> { [ accessToken |-> "tokenA" ] }
      [] op = "getFavourites" -> { <<>>, << [ note |-> ShownNote(FALSE) ] >> }
      [] op = "getMutes" -> { <<>>, << [ mutee |-> ShownUser ] >> }
      [] op = "getBlocks" -> { <<>>, << [ blockee |-> ShownUser ] >> }
      [] op \in TimelineOps -> { <<>>, << ShownNote(FALSE) >> }
      [] op \in {"getAccountFollowers", "getFollowRequests"} ->
           { <<>>, << [ follower |-> ShownUser ] >> }
      [] op = "getAccountFollowing" ->
           { <<>>, << [ followee |-> MemberPayload("id2") ] >>,
             << [ followee |-> MemberPayload("id2"), follower |-> ShownUser ] >> }
      [] op \in {"searchAccount", "getSuggestions"} -> { <<>>, << ShownUser >> }
      [] op = "getAccountsInList" /\ step = 1 ->
           { [ id |-> "id1", name |-> "list", userIds |-> ids ] : ids \in MemberLists }
      [] op = "getAccountsInList" /\ step > 1 -> { ShownUser }

\* The failures of the transport, as values.
TransportErrors == {"E1", "E2"}
CancelError == "Cancelled"

Ok(d)   == [ ok |-> TRUE, err |-> "", data |-> Some(d) ]
Fail(e) == [ ok |-> FALSE, err |-> e, data |-> None ]

----------------------------------------------------------------------------
(* The handlers: what a method does with the response it awaited.          *)

\* The first request is sent and not awaited: the method goes on whatever
\* its outcome.
proceeds_unawaited(resp) == TRUE

\* await this.client.post(first): a rejection is thrown out of the method.
proceeds(resp) == resp.ok

\* A handler that undoes the first request when the second fails.
compensates_onFailure(op) == TRUE

\* No two-step method catches the failure of its second request.
compensates(op) == FALSE

\* Only null and undefined are refused.
votePollAccepts_nullish(status_id) == status_id \notin {Null, Undefined}

\* if (!status_id) reject(new ArgumentError(...))
votePollAccepts(status_id) == ~Falsy(status_id)

\* A stub that resolves with nothing instead of rejecting.
unsupported_silent(op) == [ act |-> "resolve", err |-> "", data |-> None ]

\* reject(new NoImplementedError('misskey does not support'))
unsupported(op) == [ act |-> "reject", err |-> "NoImplementedError", data |-> None ]

\* Every failure replaced by one generic error.
Rejects_generic(e) == [ act |-> "reject", err |-> "Error", data |-> None ]

Rejects(e)  == [ act |-> "reject", err |-> e, data |-> None ]
Resolves(d) == [ act |-> "resolve", err |-> "", data |-> Some(d) ]
Requests(r) == [ act |-> "request", err |-> "", data |-> Some(r) ]

FansOut(rs) == [ act |-> "fanout", err |-> "", data |-> Some(rs) ]
Waits == [ act |-> "wait", err |-> "", data |-> None ]

\* The converter a paged method maps over the array it receives.
ConvertItem(op, x) ==
    CASE op = "getFavourites" -> note(x.note)
      [] op = "getMutes" -> userDetail(x.mutee)
      [] op = "getBlocks" -> userDetail(x.blockee)
      [] op = "getConversationTimeline" -> noteToConversation(x)
      [] op \in TimelineOps -> note(x)
      [] op \in {"getAccountFollowers", "getAccountFollowing"} -> follower(x)
      [] op = "getFollowRequests" -> user(x.follower)
      [] OTHER -> userDetail(x)

\* The conversion reads a property of undefined: a TypeError inside .then.
Throws(op, d) ==
    /\ op \in {"getAccountFollowers", "getAccountFollowing"}
    /\ \E i \in 1..Len(d) : "follower" \notin DOMAIN d[i]

\* Results in the order the responses arrived.
PromiseAll_arrivalOrder(c) ==
    [ i \in 1..Len(c.resps) - 1 |-> userDetail(c.resps[i + 1].data[1]) ]

\* await Promise.all(promise): the results in the order of the promises,
\* which is the order of res.data.userIds, each the converted answer to the
\* getAccount of that member.
PromiseAll(c) ==
    LET ids == c.resps[1].data[1].userIds
        answer(i) == CHOOSE j \in 2..Len(c.resps) : c.resps[j].data[1].id = ids[i]
    IN [ i \in 1..Len(ids) |-> userDetail(c.resps[answer(i)].data[1]) ]

\* this.getAccount(userId), as getAccountsInList calls it for a member.
MemberRequest(f, userId) == Request(f, "getAccount", [ id |-> userId ], 1)

\* this.generateAuthUrlAndToken(appData.client_secret), as registerApp calls
\* it: the static post without a base URL.
SessionRequest(clientSecret) ==
    staticPost("/api/auth/session/generate", [ appSecret |-> clientSecret ], DEFAULT_URL)

\* The converter of the .then of an operation's last request.
ConvertResponse(op, d) ==
    CASE op \in PagedOps -> [i \in 1..Len(d) |-> ConvertItem(op, d[i])]
      [] op \in RelationOps \cup {"getRelationship"} -> relation(d)
      [] op \in {"addAccountsToList", "deleteAccountsFromList"} -> d
      [] op \in ShowOps \cup {"getStatus"} -> note(d)
      [] op = "getAccount" -> userDetail(d)
      [] op = "createApp" ->
           [ id |-> d.id, name |-> d.name, website |-> Null,
             redirect_uri |-> d.callbackUrl, client_id |-> "",
             client_secret |-> d.secret ]
      [] op = "generateAuthUrlAndToken" -> d
      [] op = "fetchAccessToken" -> [ access_token |-> d.accessToken ]

\* What the method does when the request of call c settles with resp.
Continue(c, resp) ==
    CASE OpKind(c.op) = "twostep" /\ c.step = 1 ->
           IF proceeds(resp) THEN Requests(Request(c.f, c.op, c.arg, 2))
           ELSE Rejects(resp.err)
      [] OpKind(c.op) = "twostep" /\ c.step = 2 ->
           IF resp.ok THEN Resolves(ConvertResponse(c.op, resp.data[1]))
           ELSE IF compensates(c.op) THEN Requests(UndoRequest(c.f, c.op, c.arg))
           ELSE Rejects(resp.err)
      [] OpKind(c.op) = "twostep" /\ c.step > 2 -> Rejects(c.resps[2].err)
      [] c.op = "votePoll" /\ c.step = 1 ->
           IF proceeds(resp) THEN Requests(Request(c.f, c.op, c.arg, 2))
           ELSE Rejects(resp.err)
      [] c.op = "votePoll" /\ c.step = 2 ->
           IF ~resp.ok THEN Rejects(resp.err)
           ELSE LET st == note(resp.data[1]) IN
                IF st.poll = None THEN Rejects("UnexpectedError")
                ELSE Resolves(st.poll[1])
      [] OpKind(c.op) = "paged" ->
           IF ~resp.ok THEN Rejects(resp.err)
           ELSE IF Throws(c.op, resp.data[1]) THEN Rejects("TypeError")
           ELSE Resolves(ConvertResponse(c.op, resp.data[1]))
      [] OpKind(c.op) = "fanout" /\ c.step = 1 ->
           IF ~resp.ok THEN Rejects(resp.err)
           ELSE LET ids == resp.data[1].userIds IN
                IF ids = <<>> THEN Resolves(<<>>)
                ELSE FansOut([i \in 1..Len(ids) |-> MemberRequest(c.f, ids[i])])
      [] OpKind(c.op) = "fanout" /\ c.step > 1 ->
           \* Promise.all: the first failure rejects, the last success resolves.
           IF ~resp.ok THEN Rejects(resp.err)
           ELSE IF Len(c.resps) < Len(c.sent) THEN Waits
           ELSE Resolves(PromiseAll(c))
      [] OpKind(c.op) = "register" /\ c.step = 1 ->
           IF ~resp.ok THEN Rejects(resp.err)
           ELSE Requests(SessionRequest(
                  ConvertResponse("createApp", resp.data[1]).client_secret))
      [] OpKind(c.op) = "register" /\ c.step > 1 ->
           IF ~resp.ok THEN Rejects(resp.err)
           ELSE Resolves(ConvertResponse("createApp", c.resps[1].data[1]) @@
                         [ url |-> resp.data[1].url,
                           session_token |-> resp.data[1].token ])
      [] OTHER ->
           IF resp.ok THEN Resolves(ConvertResponse(c.op, resp.data[1]))
           ELSE Rejects(resp.err)

----------------------------------------------------------------------------
(* Calls, the transport and cancel(): Spec.                                *)

Slots == 1..MaxCalls
Idle  == [ op |-> "idle" ]
NoRet == [ op |-> "none" ]

Busy(s) == calls[s] # Idle
FreeSlot == CHOOSE s \in Slots : ~Busy(s) /\ \A t \in Slots : t < s => Busy(t)

\* The settlement of a call, as its caller sees it, with what the call did.
Settlement(f, op, arg, k, sent, resps, hit, retry) ==
    [ f |-> f, op |-> op, arg |-> arg, outcome |-> k.act, err |-> k.err,
      data |-> k.data, sent |-> sent, resps |-> resps, hit |-> hit,
      retry |-> retry ]

\* The caller makes this call right after the same method of the same
\* instance rejected on the failure of its second request: a retry.
IsRetry(f, op) ==
    /\ ret # NoRet
    /\ ret.f = f /\ ret.op = op
    /\ ret.outcome = "reject"
    /\ Len(ret.resps) = 2 /\ ~ret.resps[2].ok

\* A method that settles without a request.
Immediate(op, arg) ==
    CASE OpKind(op) = "unsupported" -> Some(unsupported(op))
      [] op = "votePoll" /\ ~votePollAccepts(arg.status_id) ->
           Some(Rejects("ArgumentError"))
      [] OTHER -> None

\* The caller invokes a method of facade f; retry records, where the caller
\* keeps track of it, that the call repeats one that has just failed.
Invoke(f, op, arg, retry) ==
    /\ op \in scope
    /\ IF Immediate(op, arg) # None
       THEN /\ ret' = Settlement(f, op, arg, Immediate(op, arg)[1], <<>>, <<>>, FALSE,
                                    retry)
            /\ UNCHANGED calls
       ELSE /\ \E s \in Slots : ~Busy(s)
            /\ calls' = [calls EXCEPT ![FreeSlot] =
                           [ f |-> f, op |-> op, arg |-> arg, step |-> 1,
                             sent |-> << Request(f, op, arg, 1) >>,
                             wire |-> LET r == Request(f, op, arg, 1) IN
                                      r.token = NoToken \/ ~cancelled[r.token],
                             resps |-> <<>>, hit |-> FALSE,
                             retry |-> retry ]]
            /\ ret' = NoRet
    /\ UNCHANGED <<cancelled, cancelCalled, backend, scope, convVars, stream>>

\* A call of a caller that may have other calls in flight.
Call(f, op, arg) == Invoke(f, op, arg, FALSE)

\* The members of the list whose getAccount is still in flight: those asked
\* for more often than answered.
PendingMembers(c) ==
    LET ids == c.resps[1].data[1].userIds IN
    { id \in Ids :
        Cardinality({ i \in 1..Len(ids) : ids[i] = id }) >
        Cardinality({ j \in 2..Len(c.resps) : c.resps[j].data[1].id = id }) }

\* The payloads the request of call c that settles next may be answered
\* with: of the requests of a fan-out, any one may settle next.
Answers(c, b) ==
    IF OpKind(c.op) = "fanout" /\ c.step > 1
    THEN { MemberPayload(id) : id \in PendingMembers(c) }
    ELSE Payloads(c.op, c.step, b)

\* A cancel() that only fails the requests in flight when it is called.
Responses_inFlightOnly(c, b) ==
    LET r == c.sent[Len(c.sent)] IN
    IF r.token # NoToken /\ cancelled[r.token] /\ c.hit
    THEN { Fail(CancelError) }
    ELSE { Ok(d) : d \in Answers(c, b) } \cup { Fail(e) : e \in TransportErrors }

\* The responses the request in flight of call c may settle with: Cancel once
\* its token is cancelled, otherwise whatever the network and the server do.
Responses(c, b) ==
    LET r == c.sent[Len(c.sent)] IN
    IF r.token # NoToken /\ cancelled[r.token]
    THEN { Fail(CancelError) }
    ELSE { Ok(d) : d \in Answers(c, b) } \cup { Fail(e) : e \in TransportErrors }

\* The states the server may be in once the request in flight of call c has
\* settled with or without success: a request that went out and was served
\* changed the server, whether or not its response arrived.
AfterServe(c, ok) ==
    (IF ok THEN {} ELSE {backend}) \cup
    (IF c.wire THEN Served(c.op, c.step, backend) ELSE {})

\* The requests a continuation issues.
Issued(k) ==
    CASE k.act = "request" -> << k.data[1] >>
      [] k.act = "fanout" -> k.data[1]
      [] OTHER -> <<>>

\* The request in flight of the call in slot s settles, and the method goes
\* on: it issues its next request, or settles the call.
Respond(s) ==
    /\ Busy(s)
    /\ \E ok \in BOOLEAN : \E b \in AfterServe(calls[s], ok) :
       \E resp \in { r \in Responses(calls[s], b) : r.ok = ok } :
         LET c == [calls[s] EXCEPT !.resps = Append(@, resp)]
             k == Continue(c, resp)
         IN /\ backend' = b
            /\ IF k.act \in {"request", "fanout", "wait"}
               THEN /\ calls' = [calls EXCEPT ![s] =
                          [c EXCEPT !.step = @ + 1,
                                    !.sent = @ \o Issued(k),
                                    !.wire = IF k.act = "wait" THEN @
                                             ELSE LET r == Issued(k)[1] IN
                                                  r.token = NoToken
                                                    \/ ~cancelled[r.token]]]
                    /\ ret' = NoRet
               ELSE /\ calls' = [calls EXCEPT ![s] = Idle]
                    /\ ret' = Settlement(c.f, c.op, c.arg, k, c.sent, c.resps, c.hit,
                                          c.retry)
    /\ UNCHANGED <<cancelled, cancelCalled, scope, convVars, stream>>

\* Misskey.cancel(): this.client.cancel(), which cancels the client's token
\* source. hit marks the calls of f that had a request in flight.
Cancel(f) ==
    /\ cancelled' = [cancelled EXCEPT ![cancelTokenSource(f)] = TRUE]
    /\ cancelCalled' = cancelCalled \cup {f}
    /\ calls' = [s \in Slots |->
                   IF Busy(s) /\ calls[s].f = f
                   THEN [calls[s] EXCEPT !.hit = TRUE] ELSE calls[s]]
    /\ ret' = NoRet
    /\ UNCHANGED <<backend, scope, convVars, stream>>

\* The operations a caller uses together in one run.
Scopes ==
    { {"followAccount", "unfollowAccount"}, {"blockAccount", "unblockAccount"},
      {"muteAccount", "unmuteAccount"},
      {"acceptFollowRequest", "rejectFollowRequest"},
      {"favouriteStatus", "unfavouriteStatus"}, {"pinStatus", "unpinStatus"},
      {"unreblogStatus", "getStatus"}, {"votePoll"}, StaticOps,
      NoImplementedOps \cup {"getAccount"} }

Init ==
    /\ clock = 0
    /\ subject = NoSubject
    /\ conv = NoConv
    /\ again = NoConv
    /\ cancelled = [t \in Facades |-> FALSE]
    /\ cancelCalled = {}
    /\ calls = [s \in Slots |-> Idle]
    /\ backend = BackendOff
    /\ ret = NoRet
    /\ scope \in Scopes
    /\ stream = StreamOff

Next ==
    \/ \E f \in Facades : \E op \in scope : \E arg \in Args(op) : Call(f, op, arg)
    \/ \E s \in Slots : Respond(s)
    \/ \E f \in Facades : Cancel(f)

Spec == Init /\ [][Next]_vars

----------------------------------------------------------------------------
(* Every method that sends requests, one call at a time: SpecList.         *)

\* The methods of the model that reach the transport.
SendingOps ==
    TwoStepOps \cup {"votePoll"} \cup SingleOps \cup StaticOps \cup PagedOps
      \cup FanOutOps \cup RegisterOps \cup FirstOnlyOps

\* The caller awaits each call before the next one.
CallAlone(f, op, arg) ==
    /\ \A s \in Slots : ~Busy(s)
    /\ Invoke(f, op, arg, IsRetry(f, op))

\* The request in flight of the call in slot s succeeds and the caller calls
\* cancel() on the instance before the method resumes: the method issues its
\* next request with a token that is already cancelled.
CancelBeforeNext(s) ==
    /\ Busy(s)
    /\ \E b \in AfterServe(calls[s], TRUE) :
       \E resp \in { r \in Responses(calls[s], b) : r.ok } :
         LET c == [calls[s] EXCEPT !.resps = Append(@, resp)]
             k == Continue(c, resp)
         IN /\ k.act \in {"request", "fanout"}
            /\ backend' = b
            /\ cancelled' = [cancelled EXCEPT ![cancelTokenSource(c.f)] = TRUE]
            /\ cancelCalled' = cancelCalled \cup {c.f}
            /\ calls' = [calls EXCEPT ![s] =
                  [c EXCEPT !.step = @ + 1,
                            !.sent = @ \o Issued(k),
                            !.wire = LET r == Issued(k)[1] IN
                                     r.token = NoToken \/ ~cancelled'[r.token]]]
            /\ ret' = NoRet
    /\ UNCHANGED <<scope, convVars, stream>>

\* A run uses one method; the arguments of a paged method are one tuple,
\* held in subject.
InitList ==
    /\ clock = 0
    /\ \E op \in SendingOps :
          /\ scope = {op}
          /\ \E a \in (IF op \in PagedOps THEN PagedArgs(op) ELSE { [ id |-> "id1" ] }) :
                subject = [ fn |-> op, input |-> a ]
    /\ conv = NoConv
    /\ again = NoConv
    /\ cancelled = [t \in Facades |-> FALSE]
    /\ cancelCalled = {}
    /\ calls = [s \in Slots |-> Idle]
    /\ backend = BackendOff
    /\ ret = NoRet
    /\ stream = StreamOff

NextList ==
    \/ \E f \in Facades : \E op \in scope : \E arg \in Args(op) : CallAlone(f, op, arg)
    \/ \E s \in Slots : Respond(s)
    \/ \E f \in Facades : Cancel(f)
    \/ \E s \in Slots : CancelBeforeNext(s)

SpecList == InitList /\ [][NextList]_vars

----------------------------------------------------------------------------
(* The converters applied: SpecConv.                                       *)

ConverterNames ==
    {"user", "userDetail", "note", "poll", "visibility", "encodeVisibility"}

Inputs(fn) ==
    CASE fn = "user" -> Users
      [] fn = "userDetail" -> UserDetails
      [] fn = "note" -> Notes
      [] fn = "poll" -> Polls
      [] fn = "visibility" -> NativeVisibilities \cup OtherVisibilities
      [] fn = "encodeVisibility" -> UnifiedVisibilities \cup OtherVisibilities

Apply(fn, x) ==
    CASE fn = "user" -> user(x)
      [] fn = "userDetail" -> userDetail(x)
      [] fn = "note" -> note(x)
      [] fn = "poll" -> poll(x)
      [] fn = "visibility" -> visibility(x)
      [] fn = "encodeVisibility" -> encodeVisibility(x)

\* None of the converters has a throw statement: a call returns.
Returned(v) == [ threw |-> FALSE, value |-> v ]

\* The first evaluation of the converter on the subject.
Convert ==
    /\ conv = NoConv
    /\ conv' = [ at |-> clock, out |-> Returned(Apply(subject.fn, subject.input)) ]
    /\ UNCHANGED <<clock, subject, again, facadeVars, stream>>

\* A later evaluation on the same native entity.
Reconvert ==
    /\ conv # NoConv
    /\ again' = [ at |-> clock, out |-> Returned(Apply(subject.fn, subject.input)) ]
    /\ UNCHANGED <<clock, subject, conv, facadeVars, stream>>

Tick ==
    /\ clock < MaxTime
    /\ clock' = clock + 1
    /\ UNCHANGED <<subject, conv, again, facadeVars, stream>>

InitConv ==
    /\ clock = 0
    /\ \E fn \in ConverterNames : \E x \in Inputs(fn) : subject = [ fn |-> fn, input |-> x ]
    /\ conv = NoConv
    /\ again = NoConv
    /\ cancelled = [t \in Facades |-> FALSE]
    /\ cancelCalled = {}
    /\ calls = [s \in Slots |-> Idle]
    /\ backend = BackendOff
    /\ ret = NoRet
    /\ scope = {}
    /\ stream = StreamOff

NextConv ==
    \/ Convert
    \/ Reconvert
    \/ Tick

SpecConv == InitConv /\ [][NextConv]_vars

----------------------------------------------------------------------------
(* The streaming handler (spec 4.4): SpecStream.                           *)

streamVars == <<stream>>

\* The kinds of inbound frame: the application payloads, the liveness probe,
\* a frame that does not parse and one whose discriminator is unknown.
AppFrames == { "update", "notification", "delete", "status_update" }
Frames == AppFrames \cup { "ping", "<malformed>", "<unrecognized>" }

\* The event channel a frame is dispatched to.
EventOf(frame) ==
    CASE frame \in AppFrames -> frame
      [] frame = "ping" -> "pong"
      [] OTHER -> "parser-error"

Emit(st, e) == [st EXCEPT !.events = Append(@, e)]

\* Closed is entered with one close event.
closed_twice(st, why) ==
    [st EXCEPT !.state = "Closed", !.closedBy = why,
               !.events = @ \o << "close", "close" >>]

closed(st, why) ==
    [st EXCEPT !.state = "Closed", !.closedBy = why, !.events = Append(@, "close")]

\* Connected is entered with a connect event, the retry budget restored.
connected(st) ==
    [st EXCEPT !.state = "Connected", !.retries = 0, !.silence = 0,
               !.events = Append(@, "connect")]

\* A parse failure tears the connection down.
onFrame_teardown(st, frame) ==
    IF frame \in AppFrames \cup {"ping"}
    THEN [st EXCEPT !.received = Append(@, frame),
                    !.events = Append(@, EventOf(frame)),
                    !.silence = IF frame = "ping" THEN 0 ELSE @]
    ELSE closed([st EXCEPT !.received = Append(@, frame),
                           !.events = Append(@, "parser-error")], "error")

\* A frame is decoded and dispatched to its channel, a bad frame to
\* parser-error; a liveness probe restarts the liveness interval.
onFrame(st, frame) ==
    [st EXCEPT !.received = Append(@, frame),
               !.events = Append(@, EventOf(frame)),
               !.silence = IF frame = "ping" THEN 0 ELSE @]

\* Link loss treated as fatal.
onLinkLoss_fatal(st) == closed([st EXCEPT !.losses = @ + 1], "error")

\* Link loss starts a reconnection with a fresh retry budget.
onLinkLoss(st) ==
    [st EXCEPT !.state = "Reconnecting", !.retries = 0, !.losses = @ + 1]

\* The caller opens the subscription.
Open ==
    /\ stream.state = "Idle"
    /\ stream' = [stream EXCEPT !.state = "Connecting"]
    /\ UNCHANGED <<convVars, facadeVars>>

\* The handshake succeeds.
Handshake ==
    /\ stream.state = "Connecting"
    /\ stream' = connected(stream)
    /\ UNCHANGED <<convVars, facadeVars>>

\* A frame arrives and is processed before the next one.
Receive(frame) ==
    /\ stream.state = "Connected"
    /\ Len(stream.received) < MaxFrames
    /\ stream' = onFrame(stream, frame)
    /\ UNCHANGED <<convVars, facadeVars>>

\* A part of the liveness interval passes without a liveness signal.
Quiet ==
    /\ stream.state = "Connected"
    /\ stream.silence < MaxSilence
    /\ stream' = [stream EXCEPT !.silence = @ + 1]
    /\ UNCHANGED <<convVars, facadeVars>>

\* The liveness interval has passed without a signal.
LinkLoss ==
    /\ stream.state = "Connected"
    /\ stream.silence = MaxSilence
    /\ stream.losses < MaxLosses
    /\ stream' = onLinkLoss(stream)
    /\ UNCHANGED <<convVars, facadeVars>>

\* A reconnection attempt succeeds.
AttemptOk ==
    /\ stream.state = "Reconnecting"
    /\ stream' = connected(stream)
    /\ UNCHANGED <<convVars, facadeVars>>

\* A reconnection attempt fails; the last one of the budget closes.
AttemptFails ==
    /\ stream.state = "Reconnecting"
    /\ stream.retries < MaxRetries
    /\ stream' = IF stream.retries + 1 = MaxRetries
                 THEN closed([stream EXCEPT !.retries = @ + 1], "budget")
                 ELSE [stream EXCEPT !.retries = @ + 1]
    /\ UNCHANGED <<convVars, facadeVars>>

Attempt == AttemptOk \/ AttemptFails

\* The caller shuts the subscription down.
Close ==
    /\ stream.state # "Closed"
    /\ stream' = closed(stream, "caller")
    /\ UNCHANGED <<convVars, facadeVars>>

InitStream ==
    /\ clock = 0
    /\ subject = NoSubject
    /\ conv = NoConv
    /\ again = NoConv
    /\ cancelled = [t \in Facades |-> FALSE]
    /\ cancelCalled = {}
    /\ calls = [s \in Slots |-> Idle]
    /\ backend = BackendOff
    /\ ret = NoRet
    /\ scope = {}
    /\ stream = StreamOff

NextStream ==
    \/ Open
    \/ Handshake
    \/ \E frame \in Frames : Receive(frame)
    \/ Quiet
    \/ LinkLoss
    \/ AttemptOk
    \/ AttemptFails
    \/ Close

SpecStream == InitStream /\ [][NextStream]_vars

\* The handler keeps attempting while it is Reconnecting.
SpecStreamLive == SpecStream /\ WF_vars(Attempt)

----------------------------------------------------------------------------
(* Claims about the facade, checked under Spec.                            *)

Settled == ret # NoRet

C1Ops ==
    { "verifyAppCredentials", "refreshToken", "revokeToken", "registerAccount",
      "getAccountFavourites", "subscribeAccount", "unsubscribeAccount",
      "getAccountLists", "getIdentityProof", "pinAccount", "unpinAccount",
      "getBookmarks", "getDomainBlocks", "blockDomain", "unblockDomain",
      "getFilters", "getFilter", "createFilter", "updateFilter", "deleteFilter",
      "getEndorsements", "getFeaturedTags", "createFeaturedTag",
      "deleteFeaturedTag", "getSuggestedTags", "getPreferences",
      "getStatusFavouritedBy", "bookmarkStatus", "unbookmarkStatus",
      "muteStatus", "unmuteStatus", "getPoll", "getScheduledStatuses",
      "getScheduledStatus", "scheduleStatus", "cancelScheduledStatus",
      "deleteConversation", "readConversation", "getMarker", "saveMarker" }

\* C1: a call of an operation without backend equivalent rejects with the
\* NotSupported error in the step that makes it, whatever the state of the
\* facade, and issues no request: it has sent nothing and never holds a
\* request in flight.
C1_NotSupportedRejectsWithoutRequest ==
    /\ (Settled /\ ret.op \in C1Ops) =>
          /\ ret.outcome = "reject"
          /\ ret.err = "NoImplementedError"
          /\ ret.sent = <<>>
    /\ \A s \in Slots : Busy(s) => calls[s].op \notin C1Ops

C1_Witness ==
    /\ Settled
    /\ ret.op = "getPoll"
    /\ ret.err = "NoImplementedError"
    /\ ret.f \in cancelCalled
    /\ \E s \in Slots : Busy(s) /\ calls[s].f = ret.f

C2Ops ==
    { "followAccount", "unfollowAccount", "blockAccount", "unblockAccount",
      "muteAccount", "unmuteAccount", "acceptFollowRequest",
      "rejectFollowRequest", "favouriteStatus", "unfavouriteStatus",
      "unreblogStatus", "pinStatus", "unpinStatus" }

\* C2: in a two-step operation a request after the first is in flight only
\* when every earlier request of the call has succeeded; a call whose first
\* request failed has sent that one request and rejects with its failure.
C2_SecondOnlyAfterFirstSucceeded ==
    /\ \A s \in Slots : (Busy(s) /\ calls[s].op \in C2Ops) =>
          /\ Len(calls[s].sent) = Len(calls[s].resps) + 1
          /\ \A i \in 1..Len(calls[s].resps) : calls[s].resps[i].ok
    /\ (Settled /\ ret.op \in C2Ops) =>
          /\ Len(ret.sent) = Len(ret.resps)
          /\ Len(ret.sent) >= 1
          /\ ~ret.resps[1].ok =>
                /\ Len(ret.sent) = 1
                /\ ret.outcome = "reject"
                /\ ret.err = ret.resps[1].err

C2_Witness ==
    /\ Settled
    /\ ret.op = "favouriteStatus"
    /\ ret.resps = << Fail("E2") >>
    /\ ret.err = "E2"

\* The call in slot s is a two-step operation whose first request has just
\* succeeded.
FirstSucceeded(s) ==
    /\ Busy(s) /\ calls[s].op \in C2Ops /\ calls[s].step = 1
    /\ calls'[s] # Idle /\ calls'[s].step = 2

\* The call in slot s is a two-step operation that has just rejected on the
\* failure of its second request.
SecondFailed(s) ==
    /\ Busy(s) /\ calls[s].op \in C2Ops /\ calls[s].step = 2
    /\ calls'[s] = Idle /\ ret' # NoRet /\ ~ret'.resps[2].ok

\* C3: a two-step operation whose first request succeeded and whose second
\* failed rejects with the second's failure; the server holds the first
\* request's effect once it succeeded, the rejecting step leaves it, and the
\* call never sends a third (compensating) request.
C3_NoCompensation ==
    /\ [](/\ (Settled /\ ret.op \in C2Ops /\ Len(ret.resps) >= 2) =>
              /\ Len(ret.sent) = 2
              /\ ~ret.resps[2].ok =>
                    ret.outcome = "reject" /\ ret.err = ret.resps[2].err
          /\ \A s \in Slots : (Busy(s) /\ calls[s].op \in C2Ops) =>
                Len(calls[s].sent) <= 2)
    /\ [][\A s \in Slots :
            /\ FirstSucceeded(s) => Established(calls[s].op, backend')
            /\ SecondFailed(s) => backend' = backend]_vars

C3_Witness ==
    /\ Settled
    /\ ret.op = "blockAccount"
    /\ Len(ret.resps) = 2
    /\ ret.resps[2] = Fail("E1")
    /\ ret.outcome = "reject"
    /\ backend.blocking

\* C4: a call that had a request in flight when cancel() was called on its
\* facade instance fails with Cancelled, whichever operation it is.
C4_CancelFailsInFlight ==
    (Settled /\ ret.hit) => (ret.outcome = "reject" /\ ret.err = CancelError)

\* The operations that send through the static post of the client class.
UnboundOps ==
    { "createApp", "generateAuthUrlAndToken", "fetchAccessToken", "registerApp" }

\* C4 (amended): a call of an operation that sends through the instance's
\* client and had a request in flight when cancel() was called on its facade
\* instance fails with Cancelled, and until it does its request can settle no
\* other way.
C4_CancelFailsInFlightOfClient ==
    /\ (Settled /\ ret.hit /\ ret.op \notin UnboundOps) =>
          (ret.outcome = "reject" /\ ret.err = CancelError)
    /\ \A s \in Slots :
          (Busy(s) /\ calls[s].hit /\ calls[s].op \notin UnboundOps) =>
             Responses(calls[s], backend) = { Fail(CancelError) }

C4_Witness ==
    /\ Settled
    /\ ret.hit
    /\ ret.op = "followAccount"
    /\ ret.err = CancelError
    /\ ret.sent # <<>>

\* C5: a call fails with Cancelled only if cancel() was called on its own
\* facade instance, and while it was not, the request the call has in flight
\* can only settle as the network and the server decide.
C5_CancelIsolated ==
    /\ (Settled /\ ret.err = CancelError) => ret.f \in cancelCalled
    /\ \A s \in Slots : (Busy(s) /\ calls[s].f \notin cancelCalled) =>
          /\ Fail(CancelError) \notin Responses(calls[s], backend)
          /\ ~calls[s].hit

C5_Witness ==
    /\ "A" \in cancelCalled
    /\ "B" \notin cancelCalled
    /\ Settled
    /\ ret.f = "B"
    /\ ret.outcome = "resolve"
    /\ Len(ret.sent) = 2

\* C6: votePoll without a status id (undefined, null or empty) rejects with
\* ArgumentError and sends nothing; with a status id it never rejects with
\* ArgumentError.
C6_VotePollNeedsStatusId ==
    /\ (Settled /\ ret.op = "votePoll") =>
          /\ Falsy(ret.arg.status_id) =>
                /\ ret.outcome = "reject"
                /\ ret.err = "ArgumentError"
                /\ ret.sent = <<>>
          /\ ~Falsy(ret.arg.status_id) => ret.err # "ArgumentError"
    /\ \A s \in Slots : (Busy(s) /\ calls[s].op = "votePoll") =>
          ~Falsy(calls[s].arg.status_id)

C6_Witness ==
    /\ Settled
    /\ ret.op = "votePoll"
    /\ ret.arg.status_id = ""
    /\ ret.err = "ArgumentError"
    /\ ret.sent = <<>>

----------------------------------------------------------------------------
(* Claims about the converters, checked under SpecConv.                    *)

HasConverted == conv # NoConv
Out == conv.out.value

\* C7: a value outside the four-value table passed to visibility or
\* encodeVisibility produces a hard UnexpectedValue error, and a note whose
\* visibility is outside the table is not converted into a status carrying an
\* absent or default visibility.
C7_UnmappedVisibilityIsHardError ==
    HasConverted =>
      /\ (subject.fn = "visibility" /\ subject.input \notin NativeVisibilities)
            => conv.out.threw
      /\ (subject.fn = "encodeVisibility" /\ subject.input \notin UnifiedVisibilities)
            => conv.out.threw
      /\ (subject.fn = "note" /\ subject.input.visibility \notin NativeVisibilities)
            => conv.out.threw

\* C8: the visibility mapping is a total bijection between the two four-value
\* sets: each table value is mapped into the other table, and mapping back
\* with the opposite converter gives the value started from.
C8_VisibilityRoundTrip ==
    HasConverted =>
      /\ (subject.fn = "visibility" /\ subject.input \in NativeVisibilities)
            => /\ Out \in UnifiedVisibilities
               /\ encodeVisibility(Out) = subject.input
      /\ (subject.fn = "encodeVisibility" /\ subject.input \in UnifiedVisibilities)
            => /\ Out \in NativeVisibilities
               /\ visibility(Out) = subject.input

C8_Witness ==
    /\ HasConverted
    /\ subject.fn = "visibility"
    /\ subject.input = "home"
    /\ Out = "unlisted"

\* C9: the unified entity's id equals the native entity's id for the user,
\* userDetail, note and poll converters, and for the poll nested in a note.
C9_IdPreserved ==
    HasConverted =>
      /\ subject.fn \in {"user", "userDetail", "note", "poll"}
            => Out.id = subject.input.id
      /\ (subject.fn = "note" /\ subject.input.poll # None)
            => Out.poll[1].id = subject.input.poll[1].id

\* C10 as stated: converting the same native entity twice, at any two
\* moments, yields identical unified entities.
C10_Deterministic ==
    again # NoConv => again.out = conv.out

\* A converted poll without its clock-dependent flag.
MaskPoll(p) == [p EXCEPT !.expired = FALSE]
MaskOptPoll(o) == IF o = None THEN None ELSE Some(MaskPoll(o[1]))
MaskStatus(st) ==
    [st EXCEPT !.poll = MaskOptPoll(@),
               !.reblog = IF @ = None THEN None
                          ELSE Some([@[1] EXCEPT !.poll = MaskOptPoll(@)])]
Mask(fn, o) ==
    CASE fn = "poll" -> [o EXCEPT !.value = MaskPoll(@)]
      [] fn = "note" -> [o EXCEPT !.value = MaskStatus(@)]
      [] OTHER -> o

\* C10 amended: two conversions of the same native entity agree on every
\* field except the expired flag of a poll (converted alone, or nested in a
\* note or in its reblog), and agree on that too when the clock read is the
\* same.
C10_DeterministicUpToClock ==
    again # NoConv =>
      /\ Mask(subject.fn, again.out) = Mask(subject.fn, conv.out)
      /\ again.at = conv.at => again.out = conv.out

C10_Witness ==
    /\ again # NoConv
    /\ subject.fn = "note"
    /\ again.at > conv.at
    /\ again.out # conv.out

\* The ballots cast in a list of choices: one per vote of each choice.
Ballots(choices) ==
    UNION { {i} \X (1..choices[i].votes) : i \in 1..Len(choices) }

\* The ballots counted by a list of converted options.
OptionBallots(options) ==
    UNION { {i} \X (1..options[i].votes_count) : i \in 1..Len(options) }

\* C11: the converted votes_count of a poll is the number of votes of all its
\* choices together (0 without choices), and is the total of the converted
\* options' votes_count.
C11_VotesCountIsSum ==
    (HasConverted /\ subject.fn = "poll") =>
      /\ Out.votes_count = Cardinality(Ballots(subject.input.choices))
      /\ Out.votes_count = Cardinality(OptionBallots(Out.options))
      /\ subject.input.choices = <<>> => Out.votes_count = 0

C11_Witness ==
    /\ HasConverted
    /\ subject.fn = "poll"
    /\ Len(subject.input.choices) = 2
    /\ subject.input.choices[1].votes = 2
    /\ subject.input.choices[2].votes = 1
    /\ Out.votes_count = 3

\* C12: the converted expired flag of a poll is true when expiresAt is before
\* the clock value read at the conversion, false when it is after it, and
\* false when the poll has no expiry.
C12_ExpiredFromClock ==
    (HasConverted /\ subject.fn = "poll") =>
      LET e == subject.input.expiresAt IN
      /\ (e # None /\ e[1] < conv.at) => Out.expired
      /\ (e # None /\ e[1] > conv.at) => ~Out.expired
      /\ e = None => ~Out.expired

C12_Witness ==
    /\ HasConverted
    /\ subject.fn = "poll"
    /\ subject.input.expiresAt = Some(0)
    /\ conv.at = 1
    /\ Out.expired

----------------------------------------------------------------------------
(* Claims about the requests of the facade.                                *)

C13Ops ==
    { "getFavourites", "getMutes", "getBlocks", "getPublicTimeline",
      "getLocalTimeline", "getTagTimeline", "getHomeTimeline",
      "getListTimeline", "getConversationTimeline", "getAccountFollowers",
      "getAccountFollowing", "searchAccount", "getSuggestions" }

\* The caller passed the argument: it is neither omitted nor null.
Supplied(v) == v \notin {Undefined, Null}

\* The argument of the method's signature that sinceId is built from.
LowerCursor(op, a) ==
    IF op \in {"getFavourites", "getMutes", "getBlocks"} THEN a.min_id ELSE a.since_id

\* Each pagination key of the request body is there because the caller
\* passed the argument, and carries the value passed.
PagingAsSupplied(op, a, req) ==
    LET prm == req.body.params IN
    /\ "limit" \in DOMAIN prm => (a.limit # None /\ prm.limit = a.limit[1])
    /\ "untilId" \in DOMAIN prm => (Supplied(a.max_id) /\ prm.untilId = a.max_id)
    /\ "sinceId" \in DOMAIN prm =>
          (Supplied(LowerCursor(op, a)) /\ prm.sinceId = LowerCursor(op, a))

\* C13: the body of every request of a list or timeline method holds a
\* pagination key (limit, untilId, sinceId) only if the caller passed the
\* argument it comes from; nothing is encoded for an omitted argument.
C13_PagingOnlyWhenSupplied ==
    /\ \A s \in Slots : (Busy(s) /\ calls[s].op \in C13Ops) =>
          \A i \in 1..Len(calls[s].sent) :
             PagingAsSupplied(calls[s].op, calls[s].arg, calls[s].sent[i])
    /\ (Settled /\ ret.op \in C13Ops) =>
          /\ Len(ret.sent) = 1
          /\ PagingAsSupplied(ret.op, ret.arg, ret.sent[1])

C13_Witness ==
    /\ Settled
    /\ ret.op = "getFavourites"
    /\ ret.arg.limit = None
    /\ ret.arg.max_id = "m1"
    /\ ret.arg.min_id = Undefined
    /\ DOMAIN ret.sent[1].body.params = {"untilId"}

\* C15: a call that reaches the transport issues one or two requests, never
\* more.
C15_AtMostTwoRequests ==
    /\ \A s \in Slots : Busy(s) =>
          (Len(calls[s].sent) >= 1 /\ Len(calls[s].sent) <= 2)
    /\ Settled => Len(ret.sent) <= 2

C17_TransportFailurePassedThrough ==
    /\ \A s \in Slots : Busy(s) =>
          \A i \in 1..Len(calls[s].resps) : calls[s].resps[i].ok
    /\ Settled =>
          \A i \in 1..Len(ret.resps) :
             ~ret.resps[i].ok =>
                /\ ret.outcome = "reject"
                /\ ret.err = ret.resps[i].err

C17_Witness ==
    /\ Settled
    /\ ret.op = "getStatus"
    /\ ret.resps = << Fail("E1") >>
    /\ ret.outcome = "reject"
    /\ ret.err = "E1"

\* C14: in a run of followAccount calls on a server that serves a follow of
\* an account already followed as a no-op, a retry made after a call that
\* failed at its second request finds and leaves the follow established
\* (following, or requested), and a retry whose two requests succeed resolves
\* with the follow state the server holds then.
C14_RetryIsSafe ==
    scope = {"followAccount"} =>
      /\ \A s \in Slots : (Busy(s) /\ calls[s].retry) =>
            (backend.following \/ backend.requested)
      /\ (Settled /\ ret.retry) =>
            /\ backend.following \/ backend.requested
            /\ ret.outcome = "resolve" =>
                  /\ ret.data[1].following = backend.following
                  /\ ret.data[1].requested = backend.requested
                  /\ ret.data[1].following \/ ret.data[1].requested

C14_Witness ==
    /\ scope = {"followAccount"}
    /\ Settled
    /\ ret.retry
    /\ ret.outcome = "resolve"
    /\ Len(ret.sent) = 2
    /\ ret.data[1].following

\* C15 (amended): a call that reaches the transport issues one or two
\* requests, except a call of getAccountsInList, which issues one request for
\* the list and then one for each member the list has.
C15_RequestsBounded ==
    /\ \A s \in Slots : Busy(s) =>
          /\ Len(calls[s].sent) >= 1
          /\ calls[s].op # "getAccountsInList" => Len(calls[s].sent) <= 2
          /\ calls[s].op = "getAccountsInList" =>
                Len(calls[s].sent) = 1 +
                  (IF calls[s].resps = <<>> THEN 0
                   ELSE Len(calls[s].resps[1].data[1].userIds))
    /\ Settled =>
          /\ ret.op # "getAccountsInList" => Len(ret.sent) <= 2
          /\ ret.op = "getAccountsInList" =>
                Len(ret.sent) = 1 +
                  (IF ret.resps[1].ok THEN Len(ret.resps[1].data[1].userIds) ELSE 0)

C15_Witness ==
    /\ Settled
    /\ ret.op = "getAccountsInList"
    /\ ret.outcome = "resolve"
    /\ Len(ret.sent) = 3
    /\ Len(ret.data[1]) = 2

----------------------------------------------------------------------------
(* Claims about the streaming handler, checked under SpecStream.            *)

IsFrameEvent(e) == e \notin { "connect", "close" }
IsClose(e) == e = "close"
IsConnect(e) == e = "connect"
Closes == Len(SelectSeq(stream.events, IsClose))
Connects == Len(SelectSeq(stream.events, IsConnect))

\* What the frames received so far should have produced, in order.
Dispatched == [ i \in 1..Len(stream.received) |-> EventOf(stream.received[i]) ]

FrameStep == stream'.received # stream.received

\* C18: every received frame produces exactly one event, in arrival order,
\* a malformed or unrecognized one a parser-error; so a malformed frame
\* followed by an update frame gives one parser-error and then one update.
\* Processing a frame, malformed or not, leaves the handler Connected, where
\* the next frame is still taken.
C18_ParserErrorThenContinue ==
    /\ [](SelectSeq(stream.events, IsFrameEvent) = Dispatched)
    /\ [][FrameStep =>
            /\ stream.state = "Connected"
            /\ stream'.state = "Connected"
            /\ stream'.events = Append(stream.events, EventOf(stream'.received[Len(stream'.received)]))
         ]_vars

C18_Witness ==
    /\ stream.state = "Connected"
    /\ stream.received = << "<malformed>", "update" >>
    /\ stream.events = << "connect", "parser-error", "update" >>

\* C19: close is emitted at most once, and exactly once when the handler is
\* Closed, which it reaches by caller shutdown or by exhausting the retry
\* budget; close is then the last event, and Closed is never left.
C19_CloseOnceAndTerminal ==
    /\ [](/\ Closes <= 1
          /\ (stream.state = "Closed") <=> (Closes = 1)
          /\ stream.state = "Closed" =>
                /\ stream.events[Len(stream.events)] = "close"
                /\ stream.closedBy \in { "caller", "budget" }
          /\ stream.closedBy = "budget" => stream.retries = MaxRetries)
    /\ [][stream.state = "Closed" => stream' = stream]_vars

C19_Witness ==
    /\ stream.state = "Closed"
    /\ stream.closedBy = "budget"
    /\ stream.events = << "connect", "update", "close" >>

LossStep == stream'.losses # stream.losses

\* C20: a link loss moves the handler from Connected to Reconnecting and
\* emits nothing, never to Closed; a reconnection makes at most MaxRetries
\* failed attempts; and a handler that keeps attempting leaves Reconnecting
\* for Connected, emitting connect, or for Closed.
C20_LinkLossReconnects ==
    /\ [][LossStep =>
            /\ stream.state = "Connected"
            /\ stream'.state = "Reconnecting"
            /\ stream'.events = stream.events]_vars
    /\ [](stream.retries <= MaxRetries)
    /\ [][(stream.state = "Reconnecting" /\ stream'.state = "Connected") =>
            stream'.events = Append(stream.events, "connect")]_vars
    /\ (stream.state = "Reconnecting") ~> (stream.state \in { "Connected", "Closed" })

C20_Witness ==
    /\ stream.state = "Connected"
    /\ stream.losses = 1
    /\ Connects = 2

----------------------------------------------------------------------------
(* Further claims about the converters, checked under SpecConv.            *)

\* The native user names a host of its own.
HasHost(u) == u.host # Null /\ u.host # ""

\* C21: the acct of a converted user is the username alone when the native
\* user has no host, and username@host when it has one, for user and for
\* userDetail alike.
C21_AcctQualifiedByHost ==
    (HasConverted /\ subject.fn \in {"user", "userDetail"}) =>
      LET u == subject.input IN
      /\ ~HasHost(u) => Out.acct = u.username
      /\ HasHost(u) => Out.acct = u.username \o "@" \o u.host

C21_Witness ==
    /\ HasConverted
    /\ subject.fn = "userDetail"
    /\ subject.input.host = "remote.example"
    /\ Out.acct = "alice@remote.example"

\* The files of a native note that are flagged sensitive.
Flagged(files) ==
    IF files = None THEN {}
    ELSE { i \in 1..Len(files[1]) : files[1][i].isSensitive }

\* C22: the sensitive flag of a converted note is true exactly when one of
\* its files is flagged sensitive (false without files); reblog is present
\* exactly when the native note carries a renote, and the nested status
\* follows the same rule for the renote's files.
C22_SensitiveFromFiles ==
    (HasConverted /\ subject.fn = "note") =>
      LET n == subject.input IN
      /\ Out.sensitive <=> (Flagged(n.files) # {})
      /\ (Out.reblog # None) <=> (n.renote # None)
      /\ n.renote # None =>
            (Out.reblog[1].sensitive <=> (Flagged(n.renote[1].files) # {}))

C22_Witness ==
    /\ HasConverted
    /\ subject.fn = "note"
    /\ subject.input.files = Some(<<FileSafe, FileSens>>)
    /\ Out.sensitive
    /\ subject.input.renote # None
    /\ subject.input.renote[1].files = Some(<<FileSafe>>)
    /\ ~Out.reblog[1].sensitive

----------------------------------------------------------------------------
(* Further claims about the requests of the facade, checked under SpecList. *)

VoteRequest(f, a) ==
    post(f, "/api/notes/polls/vote", [ noteId |-> a.status_id, choice |-> a.choices[1] ])
ShowRequest(f, a) == post(f, "/api/notes/show", [ noteId |-> a.status_id ])

\* C23: votePoll with a status id sends the vote request and, only once that
\* has succeeded, the notes/show request for the status; a failed vote
\* rejects without a show request; when both succeed and the note fetched has
\* no poll the call rejects with UnexpectedError, both requests sent and the
\* vote recorded; when the note has a poll the call resolves with that poll
\* converted.
C23_VoteThenShow ==
    /\ \A s \in Slots : (Busy(s) /\ calls[s].op = "votePoll") =>
          LET c == calls[s] IN
          /\ c.sent[1] = VoteRequest(c.f, c.arg)
          /\ Len(c.sent) <= 2
          /\ Len(c.sent) = 2 =>
                (c.resps # <<>> /\ c.resps[1].ok /\ c.sent[2] = ShowRequest(c.f, c.arg))
    /\ (Settled /\ ret.op = "votePoll" /\ ~Falsy(ret.arg.status_id)) =>
          /\ Len(ret.sent) = Len(ret.resps)
          /\ ret.sent[1] = VoteRequest(ret.f, ret.arg)
          /\ ~ret.resps[1].ok =>
                (Len(ret.sent) = 1 /\ ret.outcome = "reject" /\ ret.err = ret.resps[1].err)
          /\ ret.resps[1].ok =>
                (Len(ret.sent) = 2 /\ ret.sent[2] = ShowRequest(ret.f, ret.arg))
          /\ (Len(ret.resps) = 2 /\ ret.resps[2].ok) =>
                LET shown == ret.resps[2].data[1] IN
                /\ shown.poll = None =>
                      /\ ret.outcome = "reject"
                      /\ ret.err = "UnexpectedError"
                      /\ backend.voted
                /\ shown.poll # None =>
                      /\ ret.outcome = "resolve"
                      /\ ret.data[1] = poll(shown.poll[1])

C23_Witness ==
    /\ Settled
    /\ ret.op = "votePoll"
    /\ ret.err = "UnexpectedError"
    /\ Len(ret.sent) = 2
    /\ ret.resps[1].ok /\ ret.resps[2].ok
    /\ backend.voted

C24Ops ==
    { "getAccountFollowers", "getAccountFollowing", "searchAccount",
      "getFollowRequests", "getPublicTimeline", "getLocalTimeline",
      "getTagTimeline", "getHomeTimeline", "getListTimeline",
      "getConversationTimeline" }

\* Each pagination argument the caller passed is in the request body: limit
\* as limit, max_id as untilId, since_id or min_id as sinceId.
PagingCarried(a, req) ==
    LET prm == req.body.params IN
    /\ a.limit # None => ("limit" \in DOMAIN prm /\ prm.limit = a.limit[1])
    /\ Supplied(a.max_id) => ("untilId" \in DOMAIN prm /\ prm.untilId = a.max_id)
    /\ (Supplied(a.since_id) \/ Supplied(a.min_id)) =>
          ("sinceId" \in DOMAIN prm /\ prm.sinceId \in {a.since_id, a.min_id})

\* C24: the request of a list or timeline method carries every pagination
\* argument its caller passed; no passed limit or cursor is left out.
C24_SuppliedPagingCarried ==
    (Settled /\ ret.op \in C24Ops) => PagingCarried(ret.arg, ret.sent[1])

\* The paths the methods of the model post to.
Paths ==
    { FirstPath(op) : op \in SendingOps } \cup { SecondPath(op) : op \in SendingOps }
      \cup { "/api/auth/session/generate" }

\* The request goes to the base URL facade instance f was constructed with.
Targets(req, f) == req.url \in { baseUrl(f) \o p : p \in Paths }

\* C25: every request of a call of a facade instance goes to the base URL
\* the instance was constructed with, the requests of registerApp,
\* generateAuthUrlAndToken and fetchAccessToken included.
C25_RequestsTargetBaseUrl ==
    /\ \A s \in Slots : Busy(s) =>
          \A i \in 1..Len(calls[s].sent) : Targets(calls[s].sent[i], calls[s].f)
    /\ Settled => \A i \in 1..Len(ret.sent) : Targets(ret.sent[i], ret.f)

\* C26: once cancel() has been called on a facade instance, a request the
\* instance's client has in flight can only fail with Cancelled, whether it
\* was in flight at the cancel or issued after it (then it never leaves for
\* the server), the second request of a two-step method included; a call
\* that sent through the client and settles after the cancel rejects with
\* Cancelled; and no step makes a cancelled token usable again.
C26_CancelIsSticky ==
    /\ [](/\ \A s \in Slots :
               (Busy(s) /\ calls[s].f \in cancelCalled /\ calls[s].op \notin UnboundOps) =>
                  /\ Responses(calls[s], backend) = { Fail(CancelError) }
                  /\ ~calls[s].hit => ~calls[s].wire
          /\ (Settled /\ ret.f \in cancelCalled /\ ret.op \notin UnboundOps
                 /\ ret.sent # <<>>) =>
                (ret.outcome = "reject" /\ ret.err = CancelError)
          /\ \A f \in cancelCalled : cancelled[cancelTokenSource(f)])
    /\ [][/\ \A t \in Facades : cancelled[t] => cancelled'[t]
           /\ cancelCalled \subseteq cancelCalled']_vars

C26_Witness ==
    /\ Settled
    /\ ret.op = "followAccount"
    /\ ~ret.hit
    /\ ret.f \in cancelCalled
    /\ Len(ret.sent) = 2
    /\ ret.resps[1].ok
    /\ ret.resps[2] = Fail(CancelError)
    /\ ret.err = CancelError

\* The member ids of the list a getAccountsInList call received.
ListIds(resps) == resps[1].data[1].userIds

\* C27: getAccountsInList sends the list request alone; once it has
\* succeeded it sends one getAccount request per member id, in the list's
\* order and all before any of them is answered; a failed list request ends
\* the call with that one request sent; a failed getAccount rejects the call
\* with its failure; and the call resolves only with every getAccount
\* answered, the accounts in the order of the list's userIds in whatever
\* order the answers arrived.
C27_ListThenMembersInOrder ==
    /\ \A s \in Slots : (Busy(s) /\ calls[s].op = "getAccountsInList") =>
          LET c == calls[s] IN
          /\ c.resps = <<>> => Len(c.sent) = 1
          /\ c.resps # <<>> =>
                /\ c.resps[1].ok
                /\ Len(c.sent) = 1 + Len(ListIds(c.resps))
                /\ \A i \in 1..Len(ListIds(c.resps)) :
                      c.sent[i + 1] = MemberRequest(c.f, ListIds(c.resps)[i])
                /\ Len(c.resps) < Len(c.sent)
    /\ (Settled /\ ret.op = "getAccountsInList") =>
          /\ ~ret.resps[1].ok =>
                (Len(ret.sent) = 1 /\ ret.outcome = "reject" /\ ret.err = ret.resps[1].err)
          /\ \A j \in 1..Len(ret.resps) :
                ~ret.resps[j].ok => (ret.outcome = "reject" /\ ret.err = ret.resps[j].err)
          /\ ret.outcome = "resolve" =>
                /\ Len(ret.resps) = 1 + Len(ListIds(ret.resps))
                /\ \A j \in 1..Len(ret.resps) : ret.resps[j].ok
                /\ Len(ret.data[1]) = Len(ListIds(ret.resps))
                /\ \A i \in 1..Len(ListIds(ret.resps)) :
                      ret.data[1][i] = userDetail(MemberPayload(ListIds(ret.resps)[i]))

C27_Witness ==
    /\ Settled
    /\ ret.op = "getAccountsInList"
    /\ ret.outcome = "resolve"
    /\ ListIds(ret.resps) = << "id1", "id2" >>
    /\ ret.resps[2].data[1].id = "id2"
    /\ ret.resps[3].data[1].id = "id1"
    /\ ret.data[1][1].id = "id1"
    /\ ret.data[1][2].id = "id2"

\* C28: getAccountFollowing resolves with the followee of each record of the
\* answer and getAccountFollowers with the follower of each record.
C28_FollowingReturnsFollowee ==
    (Settled /\ ret.resps # <<>> /\ ret.resps[1].ok) =>
      LET d == ret.resps[1].data[1] IN
      /\ ret.op = "getAccountFollowing" =>
            /\ ret.outcome = "resolve"
            /\ ret.data[1] = [ i \in 1..Len(d) |-> user(d[i].followee) ]
      /\ ret.op = "getAccountFollowers" =>
            /\ ret.outcome = "resolve"
            /\ ret.data[1] = [ i \in 1..Len(d) |-> user(d[i].follower) ]

C29Ops == { "getRelationship", "addAccountsToList", "deleteAccountsFromList", "votePoll" }

\* The list argument of a method that takes one.
ListArg(op, a) ==
    CASE op = "getRelationship" -> a.ids
      [] op = "votePoll" -> a.choices
      [] OTHER -> a.account_ids

\* The one request of the method that names an element of the list, naming
\* the first.
NamingFirst(f, op, a) ==
    CASE op = "getRelationship" ->
           post(f, "/api/users/relation", [ userId |-> a.ids[1] ])
      [] op = "addAccountsToList" ->
           post(f, "/api/users/lists/push", [ listId |-> a.id, userId |-> a.account_ids[1] ])
      [] op = "deleteAccountsFromList" ->
           post(f, "/api/users/lists/pull", [ listId |-> a.id, userId |-> a.account_ids[1] ])
      [] op = "votePoll" -> VoteRequest(f, a)

\* The requests a call has sent name the first element only: the first
\* request is the one naming it, and votePoll's second is the show request.
OnlyFirstSent(f, op, a, sent) ==
    /\ sent[1] = NamingFirst(f, op, a)
    /\ Len(sent) <= (IF op = "votePoll" THEN 2 ELSE 1)
    /\ Len(sent) = 2 => sent[2] = ShowRequest(f, a)

\* C29: getRelationship, addAccountsToList, deleteAccountsFromList and
\* votePoll called with a list send the request naming its first element and
\* no request for any other element, and a call with more than one element
\* whose requests succeed resolves (votePoll: when the status has a poll).
C29_FirstElementOnly ==
    /\ \A s \in Slots :
          (Busy(s) /\ calls[s].op \in C29Ops
             /\ ListArg(calls[s].op, calls[s].arg) # <<>>) =>
             OnlyFirstSent(calls[s].f, calls[s].op, calls[s].arg, calls[s].sent)
    /\ (Settled /\ ret.op \in C29Ops /\ ret.sent # <<>>
          /\ ListArg(ret.op, ret.arg) # <<>>) =>
          /\ OnlyFirstSent(ret.f, ret.op, ret.arg, ret.sent)
          /\ (/\ Len(ListArg(ret.op, ret.arg)) > 1
              /\ \A j \in 1..Len(ret.resps) : ret.resps[j].ok
              /\ ret.op = "votePoll" => ret.resps[2].data[1].poll # None)
             => ret.outcome = "resolve"

C29_Witness ==
    /\ Settled
    /\ ret.op = "addAccountsToList"
    /\ ret.arg.account_ids = << "id2", "id1" >>
    /\ ret.sent[1].body.params.userId = "id2"
    /\ Len(ret.sent) = 1
    /\ ret.outcome = "resolve"

====
